---- MODULE Spec2Model ----
(***************************************************************************)
(* Monte Carlo Tree Search engine (mcts.py) over the tic-tac-toe state     *)
(* model (tictactoe.py).                                                   *)
(*                                                                         *)
(* Rewards are 0, 0.5 and 1 in the source.  They are held here in halves,  *)
(* so that every reward and every total in Q is an integer: the model's    *)
(* reward r stands for the source's r/2, "1 - reward" is 2 - r, and        *)
(* Q[s]/N[s] of the source is Q[s]/(2*N[s]).                               *)
(***************************************************************************)
EXTENDS Integers, Sequences, FiniteSets, TLC

VARIABLES
    board,          \* play_game: the local `board`
    game,           \* play_game: where it stands ("none" before the call,
                    \* "input" at line 10, "rollouts" at line 27, "over" at
                    \* line 33, "error" after an exception), its argument
                    \* num_rollouts and the rollouts made in the running turn
    N,              \* MCTS.N: visit count of each key (defaultdict(int))
    Q,              \* MCTS.Q: total reward of each key, in halves (defaultdict(float))
    children,       \* MCTS.children: memoized successor sets (dict)
    pc,             \* "idle" between calls, "simulate" inside rollout's _simulate loop
    path,           \* rollout: path returned by _select
    node,           \* _simulate: the local `node`
    invert_reward,  \* _simulate: the local `invert_reward`
    steps,          \* number of find_random_child steps of the running simulation
    last,           \* record of the last completed call (operation, argument, outcome)
    calls,          \* calls made so far: the number of rollout calls, their
                    \* root as long as all of them were made on one root,
                    \* the number of choose calls, and the number of rollout
                    \* calls made in a row on last.root, up to the last call
    twin            \* a second MCTS instance: its N, Q and children, and
                    \* how the last call on it ended

vars == <<board, game, N, Q, children, pc, path, node, invert_reward, steps, last, calls, twin>>

----------------------------------------------------------------------------
(* tictactoe.py *)

LOSS_REWARD == 0
TIE_REWARD == 1
WIN_REWARD == 2

BOARD_SIZE == 3

Cells == 0 .. (BOARD_SIZE * BOARD_SIZE - 1)

Piece == {"EMPTY", "X", "O"}

opponent(p) ==
    IF p = "EMPTY" THEN "EMPTY"
    ELSE IF p = "O" THEN "X" ELSE "O"

\* The eight lines, in the order _winning_combos yields them.
winning_combos ==
    << <<0, 1, 2>>, <<3, 4, 5>>, <<6, 7, 8>>,
       <<0, 3, 6>>, <<1, 4, 7>>, <<2, 5, 8>>,
       <<0, 4, 8>>, <<2, 4, 6>> >>

\* Is combo k of tup filled by piece p?
ComboIs(tup, k, p) ==
    /\ tup[winning_combos[k][1]] = p
    /\ tup[winning_combos[k][2]] = p
    /\ tup[winning_combos[k][3]] = p

\* The piece of the first completed combo, EMPTY if there is none.
find_winner(tup) ==
    LET done == {k \in 1 .. Len(winning_combos) :
                    ComboIs(tup, k, "O") \/ ComboIs(tup, k, "X")}
    IN  IF done = {} THEN "EMPTY"
        ELSE LET k == CHOOSE j \in done : \A i \in done : j <= i
             IN  IF ComboIs(tup, k, "O") THEN "O" ELSE "X"

TicTacToeBoard(tup, turn, winner, terminal) ==
    [tup |-> tup, turn |-> turn, winner |-> winner, terminal |-> terminal]

new == TicTacToeBoard([i \in Cells |-> "EMPTY"], "X", "EMPTY", FALSE)

\* len(tup)
Size(tup) == Cardinality(DOMAIN tup)

\* tup[index]: a negative index counts from the end.
Item(tup, index) == tup[IF index < 0 THEN index + Size(tup) ELSE index]

\* The position a slice bound k stands for in a tuple of len items.
SliceBound(len, k) ==
    IF k < 0 THEN (IF len + k < 0 THEN 0 ELSE len + k)
    ELSE IF k > len THEN len ELSE k

\* tup[:index] + (piece,) + tup[index + 1:]
Splice(tup, index, piece) ==
    LET len == Size(tup)
        stop == SliceBound(len, index)
        start == SliceBound(len, index + 1)
    IN  [i \in 0 .. (stop + len - start) |->
            IF i < stop THEN tup[i]
            ELSE IF i = stop THEN piece
            ELSE tup[start + i - stop - 1]]

\* The same for an index of the tuple, where the two slices are what lies
\* before and after the item.
Replace(tup, index, piece) ==
    IF index \in DOMAIN tup THEN [tup EXCEPT ![index] = piece]
    ELSE Splice(tup, index, piece)

empty_spots(b) == {i \in DOMAIN b.tup : b.tup[i] = "EMPTY"}

\* make_move that leaves the turn with the player who moved.
make_move_same_turn(b, index) ==
    LET tup == Replace(b.tup, index, b.turn)
        winner == find_winner(tup)
        is_terminal == (winner # "EMPTY") \/ ~(\E i \in DOMAIN tup : tup[i] = "EMPTY")
    IN  TicTacToeBoard(tup, b.turn, winner, is_terminal)

\* make_move that takes a board for terminal only when it has a winner.
make_move_winner_only(b, index) ==
    LET tup == Replace(b.tup, index, b.turn)
        winner == find_winner(tup)
    IN  TicTacToeBoard(tup, opponent(b.turn), winner, winner # "EMPTY")

make_move(b, index) ==
    LET tup == Replace(b.tup, index, b.turn)
        winner == find_winner(tup)
        is_terminal == (winner # "EMPTY") \/ ~(\E i \in DOMAIN tup : tup[i] = "EMPTY")
    IN  TicTacToeBoard(tup, opponent(b.turn), winner, is_terminal)

find_children(b) ==
    IF b.terminal THEN {}
    ELSE {make_move(b, i) : i \in empty_spots(b)}

\* None, as a value that is no board.
None == [none |-> TRUE]

\* find_random_child choosing among all the spots instead of the empty ones.
find_random_child_any_spot(b) ==
    IF b.terminal THEN {None}
    ELSE {make_move(b, choice) : choice \in Cells}

\* The values find_random_child can return: None on a terminal board,
\* otherwise the move on any one of the empty spots (random.choice).
find_random_child(b) ==
    IF b.terminal THEN {None}
    ELSE {make_move(b, choice) : choice \in empty_spots(b)}

is_terminal(b) == b.terminal

row_col_to_index(row, col) == row * BOARD_SIZE + col

\* reward() either returns a value or raises RuntimeError.
Return(v) == [raised |-> FALSE, value |-> v]
Raise == [raised |-> TRUE, value |-> 0]

\* reward() returning WIN_REWARD where it should return LOSS_REWARD.
reward_win_for_loss(b) ==
    IF ~b.terminal THEN Raise
    ELSE IF b.winner = b.turn THEN Raise
    ELSE IF b.turn = opponent(b.winner) THEN Return(WIN_REWARD)
    ELSE IF b.winner = "EMPTY" THEN Return(TIE_REWARD)
    ELSE Raise

reward(b) ==
    IF ~b.terminal THEN Raise
    ELSE IF b.winner = b.turn THEN Raise
    ELSE IF b.turn = opponent(b.winner) THEN Return(LOSS_REWARD)
    ELSE IF b.winner = "EMPTY" THEN Return(TIE_REWARD)
    ELSE Raise

----------------------------------------------------------------------------
(* mcts.py: the statistics store *)

\* Reading d[k] of a defaultdict: the value read ...
Get(d, k) == IF k \in DOMAIN d THEN d[k] ELSE 0

\* ... and the dict afterwards: an absent key is inserted with the default.
Touch(d, k) == IF k \in DOMAIN d THEN d ELSE d @@ (k :> 0)

\* d[k] += v
Add(d, k, v) == IF k \in DOMAIN d THEN [d EXCEPT ![k] = @ + v] ELSE d @@ (k :> v)

\* A fresh engine: MCTS.__init__
EmptyDict == [k \in {} |-> 0]

----------------------------------------------------------------------------
(* mcts.py: the search engine.  The operators take the engine's dicts as   *)
(* parameters (n for N, q for Q, ch for children).                         *)

\* _expand memoizing only the successors that are not expanded yet.
expand_unexplored_only(ch, nd) ==
    IF nd \in DOMAIN ch THEN ch
    ELSE ch @@ (nd :> (find_children(nd) \ DOMAIN ch))

\* _expand memoizing the successors of the node's successors as well.
expand_eager(ch, nd) ==
    IF nd \in DOMAIN ch THEN ch
    ELSE ch @@ (nd :> find_children(nd))
            @@ [c \in find_children(nd) |-> find_children(c)]

\* _expand: the children dict afterwards.
expand(ch, nd) ==
    IF nd \in DOMAIN ch THEN ch
    ELSE ch @@ (nd :> find_children(nd))

\* _all_expanded
all_expanded(ch, nd) == \A c \in ch[nd] : c \in DOMAIN ch

\* math.log(k) for the visit counts the model reaches, in millionths.
LnMicro ==
    <<0, 693147, 1098612, 1386294, 1609438, 1791759, 1945910, 2079442,
      2197225, 2302585>>

\* math.sqrt, rounded down: the largest r in lo..hi with r*r <= x.
RECURSIVE isqrt_search(_, _, _)
isqrt_search(x, lo, hi) ==
    IF lo = hi THEN lo
    ELSE LET mid == (lo + hi + 1) \div 2
         IN  IF mid * mid <= x THEN isqrt_search(x, mid, hi)
             ELSE isqrt_search(x, lo, mid - 1)

isqrt(x) == isqrt_search(x, 0, 20000)

\* uct(n) of _uct_select in ten-thousandths:
\* Q[c]/N[c] + sqrt(log(N[parent]) / N[c]), Q being held in halves.
uct(n, q, parent, c) ==
    (5000 * Get(q, c)) \div Get(n, c)
        + isqrt((LnMicro[Get(n, parent)] * 100) \div Get(n, c))

\* _uct_select: its possible outcomes.  max() returns the first maximal
\* child in the set's iteration order, which is any of the maximal ones.
\* The failures are the assertion, math.log(0) and the division by N[c] = 0;
\* the dict reads before a failure insert the absent keys.
uct_select(n, q, ch, nd) ==
    IF ~all_expanded(ch, nd)
    THEN {[err |-> "AssertionError", node |-> nd, N |-> n, Q |-> q]}
    ELSE IF Get(n, nd) = 0
    THEN {[err |-> "ValueError", node |-> nd, N |-> Touch(n, nd), Q |-> q]}
    ELSE IF \E c \in ch[nd] : Get(n, c) = 0
    THEN {[err |-> "ZeroDivisionError", node |-> nd,
           N |-> Touch(n, z), Q |-> Touch(q, z)] :
             z \in {c \in ch[nd] : Get(n, c) = 0}}
    ELSE {[err |-> "none", node |-> c, N |-> n, Q |-> q] :
             c \in {c \in ch[nd] :
                      \A d \in ch[nd] : uct(n, q, nd, d) <= uct(n, q, nd, c)}}

\* _select popping from all the successors of the node instead of the
\* unexplored ones.
select_from_pop_any(n, q, ch, nd, p) ==
    LET newpath == Append(p, nd) IN
    IF nd \notin DOMAIN ch \/ ch[nd] = {}
    THEN {[err |-> "none", path |-> newpath, N |-> n, Q |-> q]}
    ELSE {[err |-> "none", path |-> Append(newpath, unexplored_node),
           N |-> n, Q |-> q] : unexplored_node \in ch[nd]}

\* _select: its possible outcomes, the path so far being p.
\* unexplored.pop() removes an arbitrary element of the set.
RECURSIVE select_from(_, _, _, _, _)
select_from(n, q, ch, nd, p) ==
    LET newpath == Append(p, nd) IN
    IF nd \notin DOMAIN ch \/ ch[nd] = {}
    THEN {[err |-> "none", path |-> newpath, N |-> n, Q |-> q]}
    ELSE LET unexplored == ch[nd] \ DOMAIN ch IN
         IF unexplored # {}
         THEN {[err |-> "none", path |-> Append(newpath, unexplored_node),
                N |-> n, Q |-> q] : unexplored_node \in unexplored}
         ELSE UNION {IF u.err # "none"
                     THEN {[err |-> u.err, path |-> newpath, N |-> u.N, Q |-> u.Q]}
                     ELSE select_from(n, q, ch, u.node, newpath) :
                        u \in uct_select(n, q, ch, nd)}

\* _select appending the root before the loop as well as inside it.
select_root_twice(n, q, ch, nd) == select_from(n, q, ch, nd, <<nd>>)

select(n, q, ch, nd) == select_from(n, q, ch, nd, <<>>)

\* _backpropagate leaving out the first node of the path (the root).
RECURSIVE backpropagate_skip_root(_, _, _, _)
backpropagate_skip_root(n, q, p, r) ==
    IF Len(p) <= 1 THEN [N |-> n, Q |-> q]
    ELSE LET nd == p[Len(p)]
         IN  backpropagate_skip_root(Add(n, nd, 1), Add(q, nd, r),
                                     SubSeq(p, 1, Len(p) - 1), 2 - r)

\* _backpropagate negating the reward instead of complementing it.
RECURSIVE backpropagate_negate(_, _, _, _)
backpropagate_negate(n, q, p, r) ==
    IF p = <<>> THEN [N |-> n, Q |-> q]
    ELSE LET nd == p[Len(p)]
         IN  backpropagate_negate(Add(n, nd, 1), Add(q, nd, r),
                                  SubSeq(p, 1, Len(p) - 1), 0 - r)

\* _backpropagate passing the same reward to every node of the path.
RECURSIVE backpropagate_no_flip(_, _, _, _)
backpropagate_no_flip(n, q, p, r) ==
    IF p = <<>> THEN [N |-> n, Q |-> q]
    ELSE LET nd == p[Len(p)]
         IN  backpropagate_no_flip(Add(n, nd, 1), Add(q, nd, r),
                                   SubSeq(p, 1, Len(p) - 1), r)

\* _backpropagate: N and Q afterwards.
RECURSIVE backpropagate(_, _, _, _)
backpropagate(n, q, p, r) ==
    IF p = <<>> THEN [N |-> n, Q |-> q]
    ELSE LET nd == p[Len(p)]
         IN  backpropagate(Add(n, nd, 1), Add(q, nd, r),
                           SubSeq(p, 1, Len(p) - 1), 2 - r)

\* The return of _simulate with its two branches exchanged.
simulate_return_swapped(inv, r) == IF inv THEN r ELSE 2 - r

\* The last two lines of _simulate: the value returned for the terminal
\* node reached, reward() having returned r.
simulate_return(inv, r) == IF inv THEN 2 - r ELSE r

\* score() returning +inf for an unseen node.
score_le_unseen_first(n, q, a, b) ==
    IF Get(n, b) = 0 THEN TRUE
    ELSE IF Get(n, a) = 0 THEN FALSE
    ELSE Get(q, a) * Get(n, b) <= Get(q, b) * Get(n, a)

\* score(n) of choose, compared: score(a) <= score(b).
\* The score is -inf when N is 0 and Q/N otherwise.
score_le(n, q, a, b) ==
    IF Get(n, a) = 0 THEN TRUE
    ELSE IF Get(n, b) = 0 THEN FALSE
    ELSE Get(q, a) * Get(n, b) <= Get(q, b) * Get(n, a)

\* The dicts after score() was evaluated on every node of the set s:
\* N[c] is read for each, Q[c] only when N[c] is not 0.
RECURSIVE touch_all(_, _)
touch_all(d, s) ==
    IF s = {} THEN d
    ELSE LET c == CHOOSE x \in s : TRUE
         IN  touch_all(Touch(d, c), s \ {c})

\* choose without its check of a terminal node.
choose_unchecked(n, q, ch, nd) ==
    IF nd \notin DOMAIN ch
    THEN {[err |-> "none", result |-> {c}, N |-> n, Q |-> q] :
             c \in find_random_child(nd)}
    ELSE {[err |-> "none", result |-> {c},
           N |-> touch_all(n, ch[nd]),
           Q |-> touch_all(q, {d \in ch[nd] : Get(n, d) # 0})] :
             c \in {c \in ch[nd] : \A d \in ch[nd] : score_le(n, q, d, c)}}

\* choose: its possible outcomes.
choose(n, q, ch, nd) ==
    IF is_terminal(nd)
    THEN {[err |-> "RuntimeError", result |-> {}, N |-> n, Q |-> q]}
    ELSE IF nd \notin DOMAIN ch
    THEN {[err |-> "none", result |-> {c}, N |-> n, Q |-> q] :
             c \in find_random_child(nd)}
    ELSE {[err |-> "none", result |-> {c},
           N |-> touch_all(n, ch[nd]),
           Q |-> touch_all(q, {d \in ch[nd] : Get(n, d) # 0})] :
             c \in {c \in ch[nd] : \A d \in ch[nd] : score_le(n, q, d, c)}}

----------------------------------------------------------------------------
(* Bounds and inputs *)

\* Rollout calls made on one engine.
MaxRollouts == 3

\* Choose calls made on one engine.
MaxChooses == 1

\* Rollout calls made on an engine that is asked for no move in between.
MaxSearchRollouts == 5

\* The largest num_rollouts play_game is called with.
MaxNumRollouts == 1

\* Rollout calls made in one game.
MaxGameRollouts == 1

\* Cells of the boards a game is continued from.
MaxCells == 9

\* The numbers entered for a row or a column.
Entries == 0 .. (BOARD_SIZE + 1)

\* Legal move sequences from the empty board; the engine's callers search
\* from the positions they lead to and from every position below those.
Openings == {<<0, 1, 2, 3, 5, 4>>}

RECURSIVE Play(_)
Play(moves) ==
    IF moves = <<>> THEN new
    ELSE make_move(Play(SubSeq(moves, 1, Len(moves) - 1)), moves[Len(moves)])

RECURSIVE Descendants(_)
Descendants(b) == {b} \cup UNION {Descendants(c) : c \in find_children(b)}

Roots == UNION {Descendants(Play(o)) : o \in Openings}

\* The boards of S and those that up to k legal moves lead to from them.
RECURSIVE Within(_, _)
Within(S, k) ==
    IF k = 0 THEN S
    ELSE S \cup Within(UNION {find_children(b) : b \in S}, k - 1)

\* The boards that legal moves lead to from the empty board.
Boards == Within({new}, BOARD_SIZE * BOARD_SIZE)

----------------------------------------------------------------------------
(* State machine *)

Call(op, root, result, err) ==
    [op |-> op, root |-> root, result |-> result, err |-> err]

\* Was the last call rollout(root)?
Repeats(root) == last.op = "rollout" /\ last.root = root

\* The record of the calls after one more call of rollout(root).
CountRollout(root) ==
    [rollouts |-> calls.rollouts + 1,
     root |-> IF calls.root \subseteq {root} THEN {root} ELSE {None},
     chooses |-> calls.chooses,
     streak |-> IF Repeats(root) THEN calls.streak + 1 ELSE 1]

\* The record of the calls after one more call of choose(root).
CountChoose(root) ==
    [calls EXCEPT !.chooses = @ + 1,
                  !.streak = IF Repeats(root) THEN @ ELSE 0]

Init ==
    /\ board = new
    /\ game = [at |-> "none", num_rollouts |-> 0, done |-> 0]
    /\ N = EmptyDict
    /\ Q = EmptyDict
    /\ children = EmptyDict
    /\ pc = "idle"
    /\ path = <<>>
    /\ node = None
    /\ invert_reward = TRUE
    /\ steps = 0
    /\ last = Call("none", None, {}, "none")
    /\ calls = [rollouts |-> 0, root |-> {}, chooses |-> 0, streak |-> 0]
    /\ twin = [N |-> EmptyDict, Q |-> EmptyDict, children |-> EmptyDict,
               err |-> "none"]

\* rollout(root) up to the entry of _simulate's loop: _select, _expand and
\* the first line of _simulate.  A failure inside _select ends the call.
RolloutCall(root) ==
    /\ pc = "idle"
    /\ \E s \in select(N, Q, children, root) :
        /\ N' = s.N
        /\ Q' = s.Q
        /\ IF s.err # "none"
           THEN /\ pc' = "idle"
                /\ UNCHANGED <<children, path, node, invert_reward, steps>>
           ELSE LET leaf == s.path[Len(s.path)] IN
                /\ path' = s.path
                /\ children' = expand(children, leaf)
                /\ node' = leaf
                /\ invert_reward' = TRUE
                /\ steps' = 0
                /\ pc' = "simulate"
        /\ last' = Call("rollout", root, {}, s.err)
    /\ calls' = CountRollout(root)
    /\ UNCHANGED twin

\* rollout(root) called by any caller of the engine.
Rollout(root) ==
    /\ calls.rollouts < MaxRollouts
    /\ RolloutCall(root)
    /\ UNCHANGED <<board, game>>

\* rollout(root) called by a caller that only searches, as the loop of
\* play_game does before it asks for a move.
SearchRollout(root) ==
    /\ calls.rollouts < MaxSearchRollouts
    /\ RolloutCall(root)
    /\ UNCHANGED <<board, game>>

\* One iteration of _simulate's loop: node = node.find_random_child() on a
\* board that is not terminal, which is the move on any one of its empty
\* spots.
SimulateStep ==
    /\ pc = "simulate"
    /\ ~is_terminal(node)
    /\ \E choice \in empty_spots(node) : node' = make_move(node, choice)
    /\ invert_reward' = ~invert_reward
    /\ steps' = steps + 1
    /\ UNCHANGED <<board, game, N, Q, children, pc, path, last, calls, twin>>

\* The loop of _simulate has ended: reward(), the return of _simulate and
\* _backpropagate.  A reward() that raises ends the call.
SimulateReturn ==
    /\ pc = "simulate"
    /\ is_terminal(node)
    /\ LET r == reward(node) IN
       IF r.raised
       THEN /\ last' = [last EXCEPT !.err = "RuntimeError"]
            /\ UNCHANGED <<N, Q>>
       ELSE LET b == backpropagate(N, Q, path, simulate_return(invert_reward, r.value))
            IN  /\ N' = b.N
                /\ Q' = b.Q
                /\ UNCHANGED last
    /\ pc' = "idle"
    /\ path' = <<>>
    /\ node' = None
    /\ invert_reward' = TRUE
    /\ steps' = 0
    /\ UNCHANGED <<board, game, children, calls, twin>>

\* choose(root)
ChooseCall(root) ==
    /\ pc = "idle"
    /\ \E c \in choose(N, Q, children, root) :
        /\ N' = c.N
        /\ Q' = c.Q
        /\ last' = Call("choose", root, c.result, c.err)
    /\ calls' = CountChoose(root)
    /\ UNCHANGED <<children, pc, path, node, invert_reward, steps, twin>>

\* choose(root) called by any caller of the engine.
Choose(root) ==
    /\ calls.chooses < MaxChooses
    /\ ChooseCall(root)
    /\ UNCHANGED <<board, game>>

\* play_game(num_rollouts), lines 4-8: a fresh engine and the empty board.
PlayGame(num_rollouts) ==
    /\ game.at = "none"
    /\ pc = "idle"
    /\ last.op = "none"
    /\ board' = new
    /\ game' = [at |-> "input", num_rollouts |-> num_rollouts, done |-> 0]
    /\ UNCHANGED <<N, Q, children, pc, path, node, invert_reward, steps, last, calls, twin>>

\* Lines 10-23: the numbers row and col are entered on a board that is not
\* terminal.  tup[index] raises IndexError for an index outside the tuple;
\* a spot that is taken is refused and the input asked for again, which
\* changes nothing; otherwise the move is made, and the game is over when
\* it ends on a terminal board.
MakeMove(row, col) ==
    LET index == row_col_to_index(row - 1, col - 1) IN
    /\ game.at = "input"
    /\ ~is_terminal(board)
    /\ Size(board.tup) <= MaxCells
    /\ IF index >= Size(board.tup) \/ index < 0 - Size(board.tup)
       THEN /\ game' = [game EXCEPT !.at = "error"]
            /\ UNCHANGED board
       ELSE /\ Item(board.tup, index) = "EMPTY"
            /\ board' = make_move(board, index)
            /\ game' = [game EXCEPT !.at = IF is_terminal(board') THEN "over"
                                           ELSE "rollouts",
                                    !.done = 0]
    /\ UNCHANGED <<N, Q, children, pc, path, node, invert_reward, steps, last, calls, twin>>

\* Lines 27-28: one more of the num_rollouts calls of rollout(board).
TurnRollout ==
    /\ game.at = "rollouts"
    /\ game.done < game.num_rollouts
    /\ calls.rollouts < MaxGameRollouts
    /\ Size(board.tup) <= MaxCells
    /\ RolloutCall(board)
    /\ game' = [game EXCEPT !.done = @ + 1]
    /\ UNCHANGED board

\* Line 30 and the test of line 10: board = tree.choose(board), once the
\* loop over range(num_rollouts) is over (at once when num_rollouts <= 0).
TurnChoose ==
    /\ game.at = "rollouts"
    /\ game.done >= game.num_rollouts
    /\ Size(board.tup) <= MaxCells
    /\ ChooseCall(board)
    /\ board' \in last'.result
    /\ game' = [game EXCEPT !.at = IF is_terminal(board') THEN "over"
                                   ELSE "input",
                            !.done = 0]

\* The first call made on a fresh engine: rollout(root) on any board that
\* legal moves lead to.
FirstRollout == last.op = "none" /\ \E root \in Boards : Rollout(root)

\* An engine driven by any calls on the positions of Roots.
Next ==
    \/ \E root \in Roots : Rollout(root)
    \/ SimulateStep
    \/ SimulateReturn
    \/ \E root \in Roots : Choose(root)

Spec == Init /\ [][Next]_vars

\* An engine driven by rollout calls alone on the positions of Roots, long
\* enough for _select to descend below a root whose successors are all
\* expanded.
NextSearch ==
    \/ \E root \in Roots : SearchRollout(root)
    \/ SimulateStep
    \/ SimulateReturn

SpecSearch == Init /\ [][NextSearch]_vars

\* A game of play_game.
NextBoard ==
    \/ \E num_rollouts \in 0 .. MaxNumRollouts : PlayGame(num_rollouts)
    \/ \E row, col \in Entries : MakeMove(row, col)
    \/ TurnRollout
    \/ SimulateStep
    \/ SimulateReturn
    \/ TurnChoose

SpecBoard == Init /\ [][NextBoard]_vars

\* A fresh engine called once, to make a rollout on any board that legal
\* moves lead to.
NextFresh ==
    \/ FirstRollout
    \/ SimulateStep
    \/ SimulateReturn

SpecFresh == Init /\ [][NextFresh]_vars

\* The engine is single-threaded and synchronous: a call that has started
\* keeps running, so the loop of _simulate and its exit are taken when they
\* can be.
SpecFreshFair ==
    SpecFresh /\ WF_vars(SimulateStep) /\ WF_vars(SimulateReturn)

----------------------------------------------------------------------------
(* Two engines and a fixed successor in place of the random one *)

\* The substitute for find_random_child: the move on the lowest-indexed
\* empty spot.
lowest_child(b) ==
    make_move(b, CHOOSE i \in empty_spots(b) : \A j \in empty_spots(b) : i <= j)

\* _simulate with that substitute: what reward() returns on the terminal
\* node reached, passed through the return of _simulate.
RECURSIVE simulate_fixed(_, _)
simulate_fixed(nd, inv) ==
    IF is_terminal(nd)
    THEN LET r == reward(nd)
         IN  IF r.raised THEN r ELSE Return(simulate_return(inv, r.value))
    ELSE simulate_fixed(lowest_child(nd), ~inv)

\* rollout with that substitute: the engines it can leave behind.
rollout_fixed(n, q, ch, root) ==
    {IF s.err # "none"
     THEN [N |-> s.N, Q |-> s.Q, children |-> ch, err |-> s.err]
     ELSE LET leaf == s.path[Len(s.path)]
              r == simulate_fixed(leaf, TRUE)
              b == backpropagate(s.N, s.Q, s.path, r.value)
          IN  IF r.raised
              THEN [N |-> s.N, Q |-> s.Q, children |-> expand(ch, leaf),
                    err |-> "RuntimeError"]
              ELSE [N |-> b.N, Q |-> b.Q, children |-> expand(ch, leaf),
                    err |-> "none"] :
        s \in select(n, q, ch, root)}

\* The same rollout call is made on both engines.  Each engine takes its own
\* pick of an unexplored successor and its own maximal child: the iteration
\* order of a set of boards follows the hashes of the Piece names, which
\* the interpreter seeds anew for every process an engine runs in.  A call
\* that raises is recorded as such, for each engine.
RolloutBoth(root) ==
    /\ pc = "idle"
    /\ calls.rollouts < MaxRollouts
    /\ \E a \in rollout_fixed(N, Q, children, root) :
        /\ N' = a.N
        /\ Q' = a.Q
        /\ children' = a.children
        /\ last' = Call("rollout", root, {}, a.err)
    /\ twin' \in rollout_fixed(twin.N, twin.Q, twin.children, root)
    /\ calls' = CountRollout(root)
    /\ UNCHANGED <<board, game, pc, path, node, invert_reward, steps>>

NextTwo == \E root \in Roots : RolloutBoth(root)

SpecTwo == Init /\ [][NextTwo]_vars

----------------------------------------------------------------------------
(* Properties *)

\* The state right after a choose call returned or raised.
AfterChoose == pc = "idle" /\ last.op = "choose"

\* C1: choose on a non-terminal root returns one state, which is a successor
\* of the root and is not the root, whether or not the root was expanded.
ChooseReturnsSuccessor ==
    (last.op = "choose" /\ ~is_terminal(last.root)) =>
        /\ last.err = "none"
        /\ Cardinality(last.result) = 1
        /\ last.result \subseteq find_children(last.root)
        /\ last.root \notin last.result

\* choose took the branch of an expanded root, after rollouts.
WitnessChooseExpanded ==
    /\ AfterChoose
    /\ ~is_terminal(last.root)
    /\ last.root \in DOMAIN children
    /\ last.result # {}
    /\ calls.rollouts > 0

\* C2: choose on a terminal root raises, returns nothing and leaves N, Q and
\* children as they were.  (A step from idle to idle that changes the state
\* is a choose call; a rollout passes through the simulation.)
ChooseTerminalRaises ==
    [][(pc = "idle" /\ pc' = "idle" /\ last'.op = "choose" /\ is_terminal(last'.root)) =>
          /\ last'.err = "RuntimeError"
          /\ last'.result = {}
          /\ N' = N
          /\ Q' = Q
          /\ children' = children]_vars

\* choose raised on a terminal root that was expanded and visited before.
WitnessChooseTerminal ==
    /\ AfterChoose
    /\ is_terminal(last.root)
    /\ last.err = "RuntimeError"
    /\ last.root \in DOMAIN children
    /\ Get(N, last.root) > 0

\* C3: on an expanded non-terminal root choose returns a successor of
\* maximal score, the score being Q/N for a visited successor and -inf for
\* an unvisited one; it returns a visited successor when there is one.
ChooseMaximizesScore ==
    (AfterChoose /\ ~is_terminal(last.root) /\ last.root \in DOMAIN children) =>
        \A c \in last.result : \A d \in find_children(last.root) :
            Get(N, d) > 0 =>
                /\ Get(N, c) > 0
                /\ Get(Q, d) * Get(N, c) <= Get(Q, c) * Get(N, d)

\* choose on an expanded root that has an unvisited successor and two
\* visited successors of different average reward.
WitnessChooseAmongScores ==
    /\ AfterChoose
    /\ last.root \in DOMAIN children
    /\ last.err = "none"
    /\ \E d \in find_children(last.root) : Get(N, d) = 0
    /\ \E d, e \in find_children(last.root) :
        /\ Get(N, d) > 0
        /\ Get(N, e) > 0
        /\ Get(Q, d) * Get(N, e) < Get(Q, e) * Get(N, d)

\* C4: on a fresh engine, after k rollout calls that were all made on one
\* non-terminal root, N[root] = k; before any rollout every count is 0.
RootVisitedOncePerRollout ==
    pc = "idle" =>
        /\ calls.rollouts = 0 => \A s \in Roots : Get(N, s) = 0
        /\ calls.root # {None} =>
              \A root \in calls.root :
                  ~is_terminal(root) => Get(N, root) = calls.rollouts

\* Several rollouts were made, all of them on one non-terminal root.
WitnessSameRootRollouts ==
    /\ pc = "idle"
    /\ calls.rollouts >= 2
    /\ calls.root # {None}
    /\ \E root \in calls.root : ~is_terminal(root) /\ Get(N, root) >= 2

\* C5: every visit count is at least 0, a state never visited has no reward,
\* and the average reward of a visited state lies in [0, 1] (Q in halves:
\* 0 <= Q[s] <= 2 * N[s]).
StatisticsInRange ==
    \A s \in DOMAIN N \cup DOMAIN Q :
        /\ Get(N, s) >= 0
        /\ Get(N, s) = 0 => Get(Q, s) = 0
        /\ Get(N, s) > 0 => (0 <= Get(Q, s) /\ Get(Q, s) <= 2 * Get(N, s))

\* The store holds a state visited twice with an average strictly between
\* 0 and 1, a state with the full reward, and an unvisited key.
WitnessStatistics ==
    /\ \E s \in DOMAIN N : N[s] >= 2 /\ 0 < Get(Q, s) /\ Get(Q, s) < 2 * N[s]
    /\ \E s \in DOMAIN N : N[s] > 0 /\ Get(Q, s) = 2 * N[s]
    /\ \E s \in DOMAIN N : N[s] = 0

\* C6: a key of children holds the full successor set of its state, and no
\* step removes a key or changes the set it holds.
ChildrenStable ==
    /\ [](\A s \in DOMAIN children : children[s] = find_children(s))
    /\ [][children' # children =>
             \A s \in DOMAIN children :
                 s \in DOMAIN children' /\ children'[s] = children[s]]_vars

\* A rollout descended from an expanded state to a successor that had been
\* expanded and visited before, and expanded it again.
WitnessReExpanded ==
    /\ pc = "simulate"
    /\ steps = 0
    /\ Len(path) >= 2
    /\ node \in children[path[Len(path) - 1]]
    /\ node \in DOMAIN children
    /\ Get(N, node) > 0

\* C7: one rollout of a fresh engine on the empty board leaves N[root] = 1
\* and Q[root] in {0, 0.5, 1} (in halves: 0, 1, 2).
FirstRolloutOnEmptyBoard ==
    (pc = "idle" /\ last = Call("rollout", new, {}, "none")) =>
        /\ Get(N, new) = 1
        /\ Get(Q, new) \in {LOSS_REWARD, TIE_REWARD, WIN_REWARD}

\* The rollout on the empty board ended in a tie.
WitnessEmptyBoardTie ==
    /\ pc = "idle"
    /\ last = Call("rollout", new, {}, "none")
    /\ calls.rollouts = 1
    /\ Get(N, new) = 1
    /\ Get(Q, new) = TIE_REWARD

\* The leaf the running simulation started from.
Leaf == path[Len(path)]

\* C9: a simulation from any board that legal moves lead to from the empty
\* board takes at most as many steps as its starting board has empty cells
\* (at most 9), leaves its loop only on a terminal board, and does leave it.
SimulateTerminates ==
    /\ [](pc = "simulate" =>
            /\ steps <= BOARD_SIZE * BOARD_SIZE
            /\ steps + Cardinality(empty_spots(node)) = Cardinality(empty_spots(Leaf)))
    /\ [][(pc = "simulate" /\ pc' = "idle") => is_terminal(node)]_vars
    /\ (pc = "simulate") ~> (pc = "idle")

\* A simulation from the empty board took nine steps and reached a terminal
\* board.
WitnessNineSteps ==
    /\ pc = "simulate"
    /\ Leaf = new
    /\ steps = 9
    /\ is_terminal(node)

\* C10: on every board a game reaches (the games of play_game(0) reach
\* every board that legal moves lead to from the empty one), find_children
\* is empty exactly when the board is terminal, and on a non-terminal board
\* find_random_child returns a member of find_children.  (The board of a
\* game changes between the calls of the engine only.)
BoardContract ==
    pc = "idle" =>
        /\ (find_children(board) = {}) <=> is_terminal(board)
        /\ ~is_terminal(board) =>
              /\ find_random_child(board) # {}
              /\ find_random_child(board) \subseteq find_children(board)

\* The game reached a full board without a winner.
WitnessFullBoardTie ==
    /\ is_terminal(board)
    /\ empty_spots(board) = {}
    /\ board.winner = "EMPTY"
    /\ find_children(board) = {}

\* C8: with the fixed successor in place of the random one, two engines
\* that were given the same rollout calls hold the same N and Q.
TwinsAgree ==
    /\ N = twin.N
    /\ Q = twin.Q

\* C11: whenever _select can call _uct_select on a state (the state is
\* expanded, has successors, and all of them are expanded), the state and
\* all its successors have been visited; no rollout ends in the assertion
\* failure, the logarithm of 0 or the division by 0.
UctPreconditionHolds ==
    pc = "idle" =>
        /\ last.err \notin {"AssertionError", "ValueError", "ZeroDivisionError"}
        /\ \A s \in DOMAIN children :
              (children[s] # {} /\ children[s] \subseteq DOMAIN children) =>
                  /\ Get(N, s) >= 1
                  /\ \A c \in children[s] : c \in DOMAIN children /\ Get(N, c) >= 1

\* After rollouts on different roots, _select called _uct_select on a state
\* visited once and descended to its successor, which was visited before.
WitnessUctAfterOtherRoot ==
    /\ pc = "simulate"
    /\ steps = 0
    /\ calls.root = {None}
    /\ Len(path) = 2
    /\ path[1] = last.root
    /\ Get(N, path[1]) = 1
    /\ children[path[1]] = {path[2]}
    /\ Get(N, path[2]) >= 1

\* The outcome of a finished game for a player, in halves: 2 for the win,
\* 1 for the tie, 0 for the loss.
OutcomeFor(player, b) ==
    IF b.winner = player THEN WIN_REWARD
    ELSE IF b.winner = "EMPTY" THEN TIE_REWARD
    ELSE LOSS_REWARD

\* What _simulate is about to return, its loop being over.
SimulateValue == simulate_return(invert_reward, reward(node).value)

\* The loop of _simulate is over.
SimulateDone == pc = "simulate" /\ is_terminal(node)

\* C12, as claimed: _simulate returns the outcome of the simulated game for
\* the player about to move at the leaf.
SimulateReturnsLeafMoverOutcome ==
    SimulateDone =>
        /\ ~reward(node).raised
        /\ SimulateValue = OutcomeFor(Leaf.turn, node)

\* C12, amended: _simulate returns the outcome of the simulated game for the
\* player who made the move into the leaf, the opponent of the player
\* about to move there; for a terminal leaf that is 1 - leaf.reward().
SimulateReturnsLastMoverOutcome ==
    SimulateDone =>
        /\ ~reward(node).raised
        /\ SimulateValue = OutcomeFor(opponent(Leaf.turn), node)
        /\ steps = 0 => SimulateValue = 2 - reward(Leaf).value

\* A simulation of at least one step ended with the win of the player who
\* was about to move at the leaf.
WitnessLeafMoverWins ==
    /\ SimulateDone
    /\ steps >= 1
    /\ node.winner = Leaf.turn

\* C13: the flag of _simulate is set exactly after an even number of steps,
\* and _simulate returns 1 - r after an even number of steps (zero
\* included) and r after an odd number, r being the reward of the terminal
\* state reached.
SimulateParity ==
    pc = "simulate" =>
        /\ invert_reward <=> (steps % 2 = 0)
        /\ is_terminal(node) =>
              /\ ~reward(node).raised
              /\ SimulateValue = IF steps % 2 = 0
                                 THEN 2 - reward(node).value
                                 ELSE reward(node).value

\* A simulation ended with a winner after an even number of steps, two at
\* least.
WitnessEvenSteps ==
    /\ SimulateDone
    /\ steps >= 2
    /\ steps % 2 = 0
    /\ node.winner # "EMPTY"

\* The states of a sequence.
Range(p) == {p[i] : i \in 1 .. Len(p)}

\* What a step adds to N and to Q of a state.
AddedN(s) == Get(N', s) - Get(N, s)
AddedQ(s) == Get(Q', s) - Get(Q, s)

\* C14: the backpropagation of a rollout adds 1 to N of every state of the
\* path, adds the simulated reward to Q of the last state, adds to Q of
\* every other state of the path 1 minus what it adds to Q of the next one,
\* and changes N and Q of no other state.
BackpropagateAlternates ==
    [][(pc = "simulate" /\ pc' = "idle") =>
          /\ \A i \in 1 .. Len(path) : AddedN(path[i]) = 1
          /\ AddedQ(path[Len(path)]) = SimulateValue
          /\ \A i \in 1 .. Len(path) - 1 :
                AddedQ(path[i]) = 2 - AddedQ(path[i + 1])
          /\ \A s \in (DOMAIN N' \cup DOMAIN Q') \ Range(path) :
                /\ s \in DOMAIN N <=> s \in DOMAIN N'
                /\ s \in DOMAIN Q <=> s \in DOMAIN Q'
                /\ AddedN(s) = 0
                /\ AddedQ(s) = 0]_vars

\* A simulation is over whose reward is not that of a tie, to be passed up
\* a path of two states of which the first was visited before, while the
\* store holds states that are not on the path.
WitnessBackpropagateTwo ==
    /\ SimulateDone
    /\ Len(path) = 2
    /\ SimulateValue # TIE_REWARD
    /\ Get(N, path[1]) >= 1
    /\ DOMAIN N \ Range(path) # {}

\* C15: the path _select returns starts with the root; each later state is
\* a memoized successor of the state before it; the last state is not
\* expanded or has no successor; every state before the last is expanded
\* and has successors; every state before the last but one has all its
\* successors expanded.  (children is the dict as _select finds it.)
SelectStopsAtFrontier ==
    [][(pc = "idle" /\ pc' = "simulate") =>
          /\ Len(path') >= 1
          /\ path'[1] = last'.root
          /\ \A i \in 2 .. Len(path') :
                /\ path'[i - 1] \in DOMAIN children
                /\ path'[i] \in children[path'[i - 1]]
          /\ LET leaf == path'[Len(path')]
             IN  leaf \notin DOMAIN children \/ children[leaf] = {}
          /\ \A i \in 1 .. Len(path') - 1 :
                path'[i] \in DOMAIN children /\ children[path'[i]] # {}
          /\ \A i \in 1 .. Len(path') - 2 :
                children[path'[i]] \subseteq DOMAIN children]_vars

\* _select descended by _uct_select from a root with three successors, all
\* of them expanded, to a successor that is expanded and not terminal, and
\* returned an unexplored successor of that one.
WitnessSelectDescends ==
    /\ pc = "simulate"
    /\ steps = 0
    /\ Len(path) = 3
    /\ Cardinality(children[path[1]]) = 3
    /\ children[path[1]] \subseteq DOMAIN children
    /\ \A c \in children[path[1]] : Get(N, c) > 0
    /\ ~is_terminal(path[2])
    /\ Get(N, path[3]) = 0

\* C16: a rollout on a terminal root raises nothing.  _select returns the
\* path of the root alone and _expand leaves children[root] empty, changing
\* no other entry; the simulation takes no step; N[root] grows by 1 and
\* Q[root] by 1 - root.reward(), and no other entry changes.
RolloutOnTerminalRoot ==
    [][/\ (pc = "idle" /\ pc' = "idle" /\ calls'.rollouts # calls.rollouts) =>
             ~is_terminal(last'.root)
       /\ (pc = "idle" /\ pc' = "simulate" /\ is_terminal(last'.root)) =>
             /\ last'.err = "none"
             /\ path' = <<last'.root>>
             /\ node' = last'.root
             /\ DOMAIN children' = DOMAIN children \cup {last'.root}
             /\ children'[last'.root] = {}
             /\ \A s \in DOMAIN children : children'[s] = children[s]
             /\ N' = N
             /\ Q' = Q
       /\ (pc = "simulate" /\ is_terminal(last.root)) =>
             /\ steps = 0
             /\ node = last.root
             /\ pc' = "idle"
             /\ last'.err = "none"
             /\ AddedN(last.root) = 1
             /\ AddedQ(last.root) = 2 - reward(last.root).value
             /\ DOMAIN N' = DOMAIN N \cup {last.root}
             /\ DOMAIN Q' = DOMAIN Q \cup {last.root}
             /\ \A s \in DOMAIN N \ {last.root} : N'[s] = N[s]
             /\ \A s \in DOMAIN Q \ {last.root} : Q'[s] = Q[s]
             /\ children' = children]_vars

\* A rollout was made on a terminal root with a winner that had been
\* visited before, in a store that holds other states.
WitnessTerminalRootAgain ==
    /\ pc = "idle"
    /\ last.op = "rollout"
    /\ last.err = "none"
    /\ is_terminal(last.root)
    /\ last.root.winner # "EMPTY"
    /\ Get(N, last.root) >= 2
    /\ Get(Q, last.root) = 2 * Get(N, last.root)
    /\ DOMAIN children # {last.root}

\* C17: on every terminal board a game reaches, those reached from the
\* empty board by legal moves among them, reward() returns a value and
\* does not raise; the winner is not
\* the player to move, and the value is LOSS_REWARD (the player who moved
\* last won) or TIE_REWARD, never WIN_REWARD.
TerminalRewardNeverWin ==
    pc = "idle" /\ is_terminal(board) =>
        /\ ~reward(board).raised
        /\ board.winner # board.turn
        /\ reward(board).value \in {LOSS_REWARD, TIE_REWARD}
        /\ reward(board).value # WIN_REWARD
        /\ reward(board).value = LOSS_REWARD <=> board.winner = opponent(board.turn)
        /\ reward(board).value = TIE_REWARD <=> board.winner = "EMPTY"

\* The game was won by O, X being the player to move on the final board.
WitnessWonByO ==
    /\ is_terminal(board)
    /\ board.winner = "O"
    /\ board.turn = "X"
    /\ reward(board) = Return(LOSS_REWARD)

\* The states the engine holds a statistic or a successor set for.
Known == DOMAIN N \cup DOMAIN Q \cup DOMAIN children

\* C18: between operations a state has N > 0 exactly when it is a key of
\* children.
VisitedIffExpanded ==
    pc = "idle" =>
        \A s \in Known : Get(N, s) > 0 <=> s \in DOMAIN children

\* After rollouts and a choose call, the engine holds expanded states,
\* all visited, and a key of N that choose inserted, which is neither.
WitnessUnvisitedKey ==
    /\ AfterChoose
    /\ Cardinality(DOMAIN children) >= 3
    /\ \E s \in DOMAIN N : N[s] = 0 /\ s \notin DOMAIN children

\* The successors of root that end the game with a win of the player who
\* moves at root.
WinningMoves(root) == {c \in find_children(root) : c.winner = root.turn}

\* C19, first part: every terminal state t has Q[t] = N[t] * (1 - t.reward()),
\* so that a visited terminal state with a winner has the average reward 1.
TerminalAverage ==
    \A t \in DOMAIN N \cup DOMAIN Q :
        is_terminal(t) /\ (pc = "idle" \/ t \notin Range(path)) =>
            /\ Get(Q, t) = Get(N, t) * (2 - reward(t).value)
            /\ t.winner # "EMPTY" => Get(Q, t) = WIN_REWARD * Get(N, t)

\* C19 as stated: once a successor of root that wins the game for the
\* player moving at root has been visited, choose(root) returns a
\* successor whose average reward is 1.
ChooseReturnsVisitedWin ==
    (/\ AfterChoose
     /\ last.err = "none"
     /\ \E w \in WinningMoves(last.root) : Get(N, w) > 0) =>
        \A c \in last.result :
            Get(N, c) > 0 /\ Get(Q, c) = WIN_REWARD * Get(N, c)

\* C19, amended: the same, for a root that is expanded.
ChooseExpandedReturnsWin ==
    /\ TerminalAverage
    /\ (/\ AfterChoose
        /\ last.err = "none"
        /\ last.root \in DOMAIN children
        /\ \E w \in WinningMoves(last.root) : Get(N, w) > 0) =>
           \A c \in last.result :
               Get(N, c) > 0 /\ Get(Q, c) = WIN_REWARD * Get(N, c)

\* choose was called on an expanded root of which two successors were
\* visited, one of them a win for the player moving at root.
WitnessChooseWin ==
    /\ AfterChoose
    /\ last.err = "none"
    /\ last.root \in DOMAIN children
    /\ \E w \in WinningMoves(last.root) : Get(N, w) > 0
    /\ \E c \in find_children(last.root) \ WinningMoves(last.root) : Get(N, c) > 0

\* The successors of root that are not expanded.
Unexpanded(root) == {c \in find_children(root) : c \notin DOMAIN children}

\* Were the last calls at least |successors(last.root)| + 1 rollout calls
\* in a row on last.root, a board that is not terminal?
RootSaturated ==
    /\ ~is_terminal(last.root)
    /\ calls.streak >= Cardinality(find_children(last.root)) + 1

\* C20: after |successors(root)| + 1 rollout calls in a row on a root that
\* is not terminal, whatever the engine held before them, root is expanded
\* and every successor of root has N >= 1; a rollout on an expanded root
\* with an unexpanded successor takes the path [root, an unexpanded
\* successor]; choose(root) called next does not take the random branch
\* and returns a successor that was visited.
RolloutsSaturateRoot ==
    /\ [](pc = "idle" /\ last.op # "none" /\ RootSaturated =>
             /\ last.root \in DOMAIN children
             /\ children[last.root] = find_children(last.root)
             /\ \A c \in find_children(last.root) : Get(N, c) >= 1
             /\ Unexpanded(last.root) = {})
    /\ [][(/\ pc = "idle"
           /\ pc' = "simulate"
           /\ last'.root \in DOMAIN children
           /\ Unexpanded(last'.root) # {}) =>
              /\ Len(path') = 2
              /\ path'[1] = last'.root
              /\ path'[2] \in Unexpanded(last'.root)]_vars
    /\ [](AfterChoose /\ RootSaturated =>
             /\ last.err = "none"
             /\ last.root \in DOMAIN children
             /\ \A c \in last.result : Get(N, c) >= 1)

\* choose was called on a root with two successors or more right after
\* the rollout calls in a row that expanded it and visited all of them.
WitnessSaturatedChoose ==
    /\ AfterChoose
    /\ RootSaturated
    /\ Cardinality(find_children(last.root)) >= 2
    /\ Get(N, last.root) = calls.streak
    /\ \A c \in find_children(last.root) : Get(N, c) = 1

====
